---- MODULE Spec2Model ----
(***************************************************************************)
(* A model of the two driver scripts of gammapy-benchmarks:                *)
(*   benchmarks/spectrum_1d.py        the timing benchmark (run_benchmark) *)
(*   validation/hess-dl3-dr1/run.py   the validation driver (main)         *)
(* The external analysis library (gammapy) is an opaque collaborator: what *)
(* it returns is drawn from small sets, and every call may raise.          *)
(***************************************************************************)
EXTENDS Integers, Sequences, FiniteSets, TLC

(* Bounds of the model. *)
MaxNObs == 2
MaxCounts == 1
MaxFitValue == 1
MaxObs == 2
NBinFull == 2
NEnergyBins == 3
MaxBkg == 1
MaxPars == 3

VARIABLES
    script,     \* which script (or function under test) this run executes
    disk,       \* files of the working directory, by name
    \* ---- benchmarks/spectrum_1d.py
    N_OBS,      \* the module constant read from the environment
    bpc,        \* run_benchmark: the statement about to execute
    info,       \* run_benchmark: the timing dict
    t,          \* run_benchmark: the last reading of time.time()
    clock,      \* the wall clock time.time() reads
    stacked,    \* run_benchmark: the object the local name `stacked` is bound to
    heap,       \* the Datasets objects created so far, by object id
    trace,      \* history: the stages run_benchmark has called, in call order
    failed,     \* history: the stage whose call raised, "" when none did
    clockBack,  \* history: the wall clock was set back during the run
    written_obj,\* history: the object stacked.write was called on, 0 when none
    \* ---- validation/hess-dl3-dr1/run.py
    DEBUG,      \* the module constant DEBUG
    analyse1d,  \* main's arguments
    analyse3d,
    vpc,        \* the statement about to execute
    source,     \* main: position of the for loop in `sources`
    path,       \* history: the analysis running or last run: "1d", "3d", "none"
    stage,      \* history: the stage of that analysis entered last
    matched,    \* run_analysis_1d: how many catalog observations matched, -1 before
    observations,   \* the selected observations
    dataset_on_off, \* run_analysis_1d: the dataset of the loop body, <<>> outside it
    datasets,       \* the reduced datasets
    parameters,     \* the parameters of the models attached to the datasets
    fitN,       \* history: how many datasets the joint fit was given
    fpeN,       \* history: how many datasets the flux-point estimator was given
    flux_points,    \* flux_points.table
    ulOverridden,   \* history: line 129/229 changed a flag the estimator returned
    bkg_spectrum,   \* run_analysis_3d: bkg_spectrum.data
    e_thr_bias,     \* run_analysis_3d
    esafe,          \* run_analysis_3d
    mask_fit,       \* run_analysis_3d: dataset.mask_fit
    written_summary,\* the fit summary this analysis wrote, <<>> before
    written_table,  \* the flux-points table this analysis wrote, <<>> before
    outputs,    \* history: the files the validation driver wrote, in order
    runs        \* history: the analyses main started, in order

benchVars == <<N_OBS, bpc, info, t, clock, stacked, heap, trace, failed, clockBack, written_obj>>

cfgVars == <<DEBUG, analyse1d, analyse3d>>

localVars == <<matched, observations, dataset_on_off, datasets, parameters, fitN, fpeN,
               flux_points, ulOverridden, bkg_spectrum, e_thr_bias, esafe, mask_fit,
               written_summary, written_table>>

valVars == <<cfgVars, vpc, source, path, stage, localVars, outputs, runs>>

vars == <<script, disk, benchVars, valVars>>

----------------------------------------------------------------------------
(* Model parameters, shared by both scripts *)

\* A parameter of a model: `model` tells the sky model's parameters from the
\* background model's. Values are small integers, 0 the value at construction.
Par(name, model, frozen) ==
    [name |-> name, model |-> model, value |-> 0, frozen |-> frozen]

\* Fit.run: every free parameter may move, a frozen one keeps its value.
FitOutcomes(pars) ==
    {[i \in 1..Len(pars) |->
        [pars[i] EXCEPT !.value = IF pars[i].frozen THEN @ ELSE v[i]]] :
            v \in [1..Len(pars) -> 0..MaxFitValue]}

----------------------------------------------------------------------------
(* benchmarks/spectrum_1d.py *)

filename == "stacked"

\* The five timed stages, by the key run_benchmark stores each under.
StageOrder == <<"data_preparation", "writing", "reading", "data_fitting", "flux_point">>

StageKeys == {StageOrder[i] : i \in 1..Len(StageOrder)}

\* The statement that follows the stage stored under key k.
NextPc(k) ==
    CASE k = "data_preparation" -> "writing"
      [] k = "writing"          -> "reading"
      [] k = "reading"          -> "data_fitting"
      [] k = "data_fitting"     -> "flux_point"
      [] k = "flux_point"       -> "dump"

\* Changes of the wall clock over one stage: time.time() is not monotonic,
\* the system clock may be set back between two readings (-1).
ClockSteps == {-1, 0, 1}

\* sky_model as data_prep builds it. The model keeps one free spectral
\* parameter and one of the two spatial parameters data_prep freezes.
sky_model == <<Par("index", "sky", FALSE), Par("lon_0", "sky", TRUE)>>

\* The loop of data_prep: one reduced dataset of c counts stacked per observation.
RECURSIVE StackCounts(_, _)
StackCounts(n, c) == IF n = 0 THEN 0 ELSE StackCounts(n - 1, c) + c

\* What Datasets.read may build from the two files: the library decides, the
\* model does not assume that it is what was written.
ReadBack ==
    {[counts |-> c,
      pars |-> [i \in 1..Len(sky_model) |->
                  [sky_model[i] EXCEPT !.value = v[i], !.frozen = f[i]]]] :
        c \in 0..(MaxNObs * MaxCounts),
        v \in [1..Len(sky_model) -> 0..MaxFitValue],
        f \in [1..Len(sky_model) -> BOOLEAN]}

\* info[key] = time.time() - t ; t = time.time(), after a stage that took d.
\* The two readings of one line are taken as one reading.
\* (TimedSwapped: the difference taken the wrong way round.)
TimedSwapped(key, d) ==
    /\ clock' = clock + d
    /\ info' = (key :> (t - clock')) @@ info
    /\ t' = clock'
    /\ clockBack' = (clockBack \/ d < 0)

Timed(key, d) ==
    /\ clock' = clock + d
    /\ info' = (key :> (clock' - t)) @@ info
    /\ t' = clock'
    /\ clockBack' = (clockBack \/ d < 0)

\* Lines 107-110: info = {"n_obs": N_OBS}; t = time.time().
BenchStart ==
    /\ script = "benchmark" /\ bpc = "start"
    /\ info' = ("n_obs" :> N_OBS)
    /\ t' = clock
    /\ bpc' = "data_preparation"
    /\ UNCHANGED <<script, disk, N_OBS, clock, stacked, heap, trace, failed,
                   clockBack, written_obj, valVars>>

\* stacked = data_prep()
DataPrep ==
    /\ script = "benchmark" /\ bpc = "data_preparation"
    /\ \E c \in 1..MaxCounts, d \in ClockSteps :
        /\ heap' = Append(heap, [counts |-> StackCounts(N_OBS, c), pars |-> sky_model])
        /\ Timed("data_preparation", d)
    /\ stacked' = Len(heap')
    /\ trace' = Append(trace, "data_preparation")
    /\ bpc' = NextPc("data_preparation")
    /\ UNCHANGED <<script, disk, N_OBS, failed, written_obj, valVars>>

\* write(stacked, filename): stacked.write(path=os.getcwd(), prefix=filename)
Write ==
    /\ script = "benchmark" /\ bpc = "writing"
    /\ disk' = ((filename \o "_datasets.yaml") :> [counts |-> heap[stacked].counts])
               @@ ((filename \o "_models.yaml") :> heap[stacked].pars)
               @@ disk
    /\ written_obj' = stacked
    /\ \E d \in ClockSteps : Timed("writing", d)
    /\ trace' = Append(trace, "writing")
    /\ bpc' = NextPc("writing")
    /\ UNCHANGED <<script, N_OBS, stacked, heap, failed, valVars>>

\* The name `stacked` after stacked = read(filename), the new object being
\* the last of heap2: rebound to it.
\* (ReboundKept: the result of read dropped, the name left on the old object.)
ReboundKept(heap2) == stacked

Rebound(heap2) == Len(heap2)

\* stacked = read(filename): Datasets.read of the two files named after the
\* prefix builds a new object.
Read ==
    /\ script = "benchmark" /\ bpc = "reading"
    /\ {filename \o "_datasets.yaml", filename \o "_models.yaml"} \subseteq DOMAIN disk
    /\ \E ds \in ReadBack : heap' = Append(heap, ds)
    /\ stacked' = Rebound(heap')
    /\ \E d \in ClockSteps : Timed("reading", d)
    /\ trace' = Append(trace, "reading")
    /\ bpc' = NextPc("reading")
    /\ UNCHANGED <<script, disk, N_OBS, failed, written_obj, valVars>>

\* data_fit(stacked): Fit(stacked).run() moves the free parameters in place.
DataFit ==
    /\ script = "benchmark" /\ bpc = "data_fitting"
    /\ \E p \in FitOutcomes(heap[stacked].pars) :
        heap' = [heap EXCEPT ![stacked].pars = p]
    /\ \E d \in ClockSteps : Timed("data_fitting", d)
    /\ trace' = Append(trace, "data_fitting")
    /\ bpc' = NextPc("data_fitting")
    /\ UNCHANGED <<script, disk, N_OBS, stacked, failed, written_obj, valVars>>

\* flux_point(stacked): the estimator's result is dropped.
FluxPoint ==
    /\ script = "benchmark" /\ bpc = "flux_point"
    /\ \E d \in ClockSteps : Timed("flux_point", d)
    /\ trace' = Append(trace, "flux_point")
    /\ bpc' = NextPc("flux_point")
    /\ UNCHANGED <<script, disk, N_OBS, stacked, heap, failed, written_obj, valVars>>

\* Path("bench.yaml").write_text(yaml.dump(info, sort_keys=False, indent=4))
Dump ==
    /\ script = "benchmark" /\ bpc = "dump"
    /\ disk' = ("bench.yaml" :> info) @@ disk
    /\ bpc' = "done"
    /\ UNCHANGED <<script, N_OBS, info, t, clock, stacked, heap, trace, failed,
                   clockBack, written_obj, valVars>>

\* A stage raises: nothing in run_benchmark catches, the script ends.
\* (StageRaisesSwallowed: the exception caught, the next stage run.)
StageRaisesSwallowed ==
    /\ script = "benchmark" /\ bpc \in StageKeys
    /\ trace' = Append(trace, bpc)
    /\ failed' = bpc
    /\ bpc' = NextPc(bpc)
    /\ UNCHANGED <<script, disk, N_OBS, info, t, clock, stacked, heap, clockBack,
                   written_obj, valVars>>

StageRaises ==
    /\ script = "benchmark" /\ bpc \in StageKeys
    /\ trace' = Append(trace, bpc)
    /\ failed' = bpc
    /\ bpc' = "aborted"
    /\ UNCHANGED <<script, disk, N_OBS, info, t, clock, stacked, heap, clockBack,
                   written_obj, valVars>>

\* The final write_text raises.
DumpRaises ==
    /\ script = "benchmark" /\ bpc = "dump"
    /\ bpc' = "aborted"
    /\ UNCHANGED <<script, disk, N_OBS, info, t, clock, stacked, heap, trace, failed,
                   clockBack, written_obj, valVars>>

----------------------------------------------------------------------------
(* validation/hess-dl3-dr1/run.py *)

sources == <<"crab", "msh1552", "pks2155">>

\* NBIN = 24 if DEBUG is False else 1; NBinFull stands for the 24.
NBIN == IF DEBUG THEN 1 ELSE NBinFull

\* The ts values a flux point may carry: below, at and above the threshold.
TsValues == {3, 4, 5}

\* What FluxPointsEstimator.run may return: one row per bin of FLUXP_EDGES,
\* with the estimator's own upper-limit flag.
EstimatorTables == [1..NBIN -> [ts : TsValues, is_ul : BOOLEAN]]

\* flux_points.table["is_ul"] = flux_points.table["ts"] < 4
\* (FlagUpperLimitsKeepEstimator: the line left out.)
FlagUpperLimitsKeepEstimator(table) == table

FlagUpperLimits(table) ==
    [i \in 1..Len(table) |-> [table[i] EXCEPT !.is_ul = (table[i].ts < 4)]]

\* flux_points.table_formatted[keys]: a copy of the table (number formats
\* set on it) cut to the columns of keys; of the columns the model's rows
\* carry, is_ul is among them and ts is not.
TableFormatted(table) ==
    [i \in 1..Len(table) |-> [is_ul |-> table[i].is_ul]]

\* "{0:.2e}".format(value): a three-digit mantissa and a decimal exponent,
\* rounded half to even. Defined for 0 <= value < 100000.
RoundHalfEven(n, d) ==
    LET q == n \div d
        r == n % d
    IN  IF 2 * r > d \/ (2 * r = d /\ q % 2 = 1) THEN q + 1 ELSE q

Format2e(value) ==
    IF value = 0 THEN <<0, 0>>
    ELSE IF value < 10 THEN <<value * 100, 0>>
    ELSE IF value < 100 THEN <<value * 10, 1>>
    ELSE IF value < 1000 THEN <<value, 2>>
    ELSE IF value < 10000 THEN
        (IF RoundHalfEven(value, 10) = 1000 THEN <<100, 4>>
         ELSE <<RoundHalfEven(value, 10), 3>>)
    ELSE
        (IF RoundHalfEven(value, 100) = 1000 THEN <<100, 5>>
         ELSE <<RoundHalfEven(value, 100), 4>>)

\* One pass of the loop of write_fit_summary:
\* fit_results_dict.update({name: string}), the error and the unit left out.
\* (UpdateKeepFirst: setdefault in place of update.)
UpdateKeepFirst(fit_results_dict, parameter) ==
    fit_results_dict @@ (parameter.name :> Format2e(parameter.value))

Update(fit_results_dict, parameter) ==
    (parameter.name :> Format2e(parameter.value)) @@ fit_results_dict

\* write_fit_summary(parameters, outfile): the dict yaml.dump is given.
RECURSIVE write_fit_summary(_)
write_fit_summary(pars) ==
    IF Len(pars) = 0 THEN <<>>
    ELSE Update(write_fit_summary(SubSeq(pars, 1, Len(pars) - 1)), pars[Len(pars)])

\* MapAxis, log-spaced: edges 1, 4, 16, ... and the centre of a bin the
\* geometric mean of its edges, 2, 8, 32, ...
RECURSIVE Pow2(_)
Pow2(k) == IF k = 0 THEN 1 ELSE 2 * Pow2(k - 1)

EnergyEdge(i) == Pow2(2 * (i - 1))

EnergyCenter(i) == Pow2(2 * i - 1)

\* The energies dataset.edisp.get_bias_energy(0.1) may return.
BiasEnergies == {Pow2(k) : k \in 0..(2 * NEnergyBins)}

\* bkg_spectrum.data.max()
RECURSIVE ArrayMax(_)
ArrayMax(data) ==
    IF Len(data) = 1 THEN data[1]
    ELSE LET m == ArrayMax(Tail(data))
         IN  IF data[1] >= m THEN data[1] ELSE m

\* list(bkg_spectrum.data).index(peak): the first position holding peak
\* (positions count from 1 here, from 0 in the source).
\* (ListIndexLast: the last such position.)
RECURSIVE ListIndexLast(_, _)
ListIndexLast(data, x) ==
    IF data[Len(data)] = x THEN Len(data)
    ELSE ListIndexLast(SubSeq(data, 1, Len(data) - 1), x)

RECURSIVE ListIndex(_, _)
ListIndex(data, x) ==
    IF data[1] = x THEN 1 ELSE 1 + ListIndex(Tail(data), x)

\* Python's max(a, b): the first argument unless the second is greater.
PyMax(a, b) == IF b > a THEN b ELSE a

\* Lines 174-183: esafe from the bias energy and the background spectrum.
SafeThreshold(bias, data) ==
    LET peak == ArrayMax(data)
        idx == ListIndex(data, peak)
        e_thr_bkg == EnergyCenter(idx)
    IN  PyMax(bias, e_thr_bkg)

\* dataset.counts.geom.energy_mask(emin=esafe): the bins whose lower edge is
\* not below emin.
EnergyMask(emin) == [i \in 1..NEnergyBins |-> EnergyEdge(i) >= emin]

\* PowerLawSpectralModel: the model keeps one free parameter and reference,
\* which the library freezes.
PowerLaw == <<Par("index", "sky", FALSE), Par("reference", "sky", TRUE)>>

SpatialModels == {"PointSpatialModel", "DiskSpatialModel"}

\* Lines 190-198 and 206: the parameters of the dataset after set_model, the
\* sky model's first, then the background norm, unfrozen. A disk has the
\* parameter e, unfrozen by line 195.
DatasetParameters(spatial_model) ==
    PowerLaw
    \o <<Par("lon_0", "sky", FALSE)>>
    \o (IF spatial_model = "DiskSpatialModel" THEN <<Par("e", "sky", FALSE)>> ELSE <<>>)
    \o <<Par("norm", "background", FALSE)>>

IsSky(p) == p.model = "sky"

\* analysis.model.parameters: the sky model's parameters alone.
ModelParameters(pars) == SelectSeq(pars, IsSky)

\* Lines 219-221: every parameter of the dataset frozen but the background norm.
FreezeAllButNorm(pars) ==
    [i \in 1..Len(pars) |->
        IF pars[i].model = "background" /\ pars[i].name = "norm"
        THEN pars[i] ELSE [pars[i] EXCEPT !.frozen = TRUE]]

\* path_res / name, with path_res = Path(tag + "/results/")
\* (ResultPathNoTag: one results directory for all sources.)
ResultPathNoTag(tag, name) == "results/" \o name

ResultPath(tag, name) == tag \o "/results/" \o name

AnalysisPcs == {"1d_select", "1d_reduce", "1d_mask", "1d_fit", "1d_summary",
                "1d_flux_points", "1d_write",
                "3d_select", "3d_reduce", "3d_mask", "3d_fit", "3d_summary",
                "3d_flux_points", "3d_write"}

\* The locals of an analysis function at its entry.
FreshLocals ==
    /\ matched' = -1
    /\ observations' = <<>>
    /\ dataset_on_off' = <<>>
    /\ datasets' = <<>>
    /\ parameters' = <<>>
    /\ fitN' = 0
    /\ fpeN' = 0
    /\ flux_points' = <<>>
    /\ ulOverridden' = FALSE
    /\ bkg_spectrum' = <<>>
    /\ e_thr_bias' = 0
    /\ esafe' = 0
    /\ mask_fit' = <<>>
    /\ written_summary' = <<>>
    /\ written_table' = <<>>

\* The function returns: its locals are gone. The state keeps the table the
\* estimator returned (with ulOverridden) beside the file written from it.
Return ==
    /\ matched' = -1
    /\ observations' = <<>>
    /\ dataset_on_off' = <<>>
    /\ datasets' = <<>>
    /\ parameters' = <<>>
    /\ fitN' = 0
    /\ fpeN' = 0
    /\ bkg_spectrum' = <<>>
    /\ e_thr_bias' = 0
    /\ esafe' = 0
    /\ mask_fit' = <<>>
    /\ written_summary' = <<>>
    /\ UNCHANGED <<flux_points, ulOverridden>>

\* main, lines 41-46: the for loop takes the next source and finds its target.
NextSource ==
    /\ script = "validation" /\ vpc = "main_loop"
    /\ source < Len(sources)
    /\ source' = source + 1
    /\ vpc' = "main_1d"
    /\ UNCHANGED <<script, disk, benchVars, cfgVars, path, stage, localVars, outputs, runs>>

\* main, line 44: no target of targets.yaml bears the tag, list(...)[0] raises.
TargetMissing ==
    /\ script = "validation" /\ vpc = "main_loop"
    /\ source < Len(sources)
    /\ source' = source + 1
    /\ vpc' = "aborted"
    /\ UNCHANGED <<script, disk, benchVars, cfgVars, path, stage, localVars, outputs, runs>>

\* main: the for loop is exhausted.
Finish ==
    /\ script = "validation" /\ vpc = "main_loop"
    /\ source = Len(sources)
    /\ vpc' = "done"
    /\ UNCHANGED <<script, disk, benchVars, cfgVars, source, path, stage, localVars,
                   outputs, runs>>

\* main, lines 47-48, and run_analysis_1d, lines 69-82.
Call1d ==
    /\ script = "validation" /\ vpc = "main_1d" /\ analyse1d
    /\ FreshLocals
    /\ path' = "1d"
    /\ stage' = "none"
    /\ runs' = Append(runs, <<sources[source], "1d">>)
    /\ vpc' = "1d_select"
    /\ UNCHANGED <<script, disk, benchVars, cfgVars, source, outputs>>

Skip1d ==
    /\ script = "validation" /\ vpc = "main_1d" /\ ~analyse1d
    /\ vpc' = "main_3d"
    /\ UNCHANGED <<script, disk, benchVars, cfgVars, source, path, stage, localVars,
                   outputs, runs>>

\* Lines 88-91: the n observations that matched, by position in the catalog;
\* in debug mode the first alone (none when observations[0] raises).
\* (SelectObservationsAll: the debug cut left out; SelectObservationsFirstTwo:
\* observations[:2] in place of [observations[0]].)
SelectObservationsAll(n) == [i \in 1..n |-> i]

SelectObservationsFirstTwo(n) ==
    IF DEBUG THEN [i \in 1..(IF n < 2 THEN n ELSE 2) |-> i] ELSE [i \in 1..n |-> i]

SelectObservations(n) ==
    IF DEBUG THEN (IF n = 0 THEN <<>> ELSE <<1>>) ELSE [i \in 1..n |-> i]

\* Lines 84-91: the observations of the target are selected; in debug mode
\* observations[0] raises IndexError when none matched.
Select1d ==
    /\ script = "validation" /\ vpc = "1d_select"
    /\ \E n \in 0..MaxObs :
        /\ matched' = n
        /\ observations' = SelectObservations(n)
        /\ vpc' = IF DEBUG /\ n = 0 THEN "aborted"
                  ELSE IF n = 0 THEN "1d_fit" ELSE "1d_reduce"
    /\ stage' = "select"
    /\ UNCHANGED <<script, disk, benchVars, cfgVars, source, path, dataset_on_off,
                   datasets, parameters, fitN, fpeN, flux_points, ulOverridden,
                   bkg_spectrum, e_thr_bias, esafe, mask_fit, written_summary,
                   written_table, outputs, runs>>

\* Lines 107-108, for the next observation: dataset_maker.run, bkg_maker.run.
Reduce1d ==
    /\ script = "validation" /\ vpc = "1d_reduce"
    /\ dataset_on_off' = <<[obs |-> observations[Len(datasets) + 1], masked |-> FALSE]>>
    /\ stage' = "reduce"
    /\ vpc' = "1d_mask"
    /\ UNCHANGED <<script, disk, benchVars, cfgVars, source, path, matched, observations,
                   datasets, parameters, fitN, fpeN, flux_points, ulOverridden,
                   bkg_spectrum, e_thr_bias, esafe, mask_fit, written_summary,
                   written_table, outputs, runs>>

\* Lines 109-110: safe_mask_masker.run, datasets.append; then the loop goes on
\* to the next observation or ends.
Mask1d ==
    /\ script = "validation" /\ vpc = "1d_mask"
    /\ datasets' = Append(datasets, [dataset_on_off[1] EXCEPT !.masked = TRUE])
    /\ dataset_on_off' = <<>>
    /\ stage' = "mask"
    /\ vpc' = IF Len(datasets') < Len(observations) THEN "1d_reduce" ELSE "1d_fit"
    /\ UNCHANGED <<script, disk, benchVars, cfgVars, source, path, matched, observations,
                   parameters, fitN, fpeN, flux_points, ulOverridden,
                   bkg_spectrum, e_thr_bias, esafe, mask_fit, written_summary,
                   written_table, outputs, runs>>

\* Lines 112-122: one model for all datasets, the joint fit, its parameters.
Fit1d ==
    /\ script = "validation" /\ vpc = "1d_fit"
    /\ \E p \in FitOutcomes(PowerLaw) : parameters' = p
    /\ fitN' = Len(datasets)
    /\ stage' = "fit"
    /\ vpc' = "1d_summary"
    /\ UNCHANGED <<script, disk, benchVars, cfgVars, source, path, matched, observations,
                   dataset_on_off, datasets, fpeN, flux_points, ulOverridden,
                   bkg_spectrum, e_thr_bias, esafe, mask_fit, written_summary,
                   written_table, outputs, runs>>

\* Lines 123-124 (1d) and 214-215 (3d): write_fit_summary to the result path.
\* The disk keeps which file is there, written_summary what this one holds.
WriteSummary(pars, name) ==
    /\ written_summary' = write_fit_summary(pars)
    /\ disk' = (ResultPath(sources[source], name) :> "fit summary") @@ disk
    /\ outputs' = Append(outputs, ResultPath(sources[source], name))

Summary1d ==
    /\ script = "validation" /\ vpc = "1d_summary"
    /\ WriteSummary(parameters, "results-summary-fit-1d.yaml")
    /\ stage' = "summarize"
    /\ vpc' = "1d_flux_points"
    /\ UNCHANGED <<script, benchVars, cfgVars, source, path, matched, observations,
                   dataset_on_off, datasets, parameters, fitN, fpeN, flux_points,
                   ulOverridden, bkg_spectrum, e_thr_bias, esafe, mask_fit,
                   written_table, runs>>

\* Lines 126-129 (1d) and 224-229 (3d): the estimator runs on the datasets,
\* then is_ul is set from ts.
EstimateFluxPoints ==
    /\ \E est \in EstimatorTables :
        /\ flux_points' = FlagUpperLimits(est)
        /\ ulOverridden' = (flux_points' # est)
    /\ fpeN' = Len(datasets)

FluxPoints1d ==
    /\ script = "validation" /\ vpc = "1d_flux_points"
    /\ EstimateFluxPoints
    /\ stage' = "flux-points"
    /\ vpc' = "1d_write"
    /\ UNCHANGED <<script, disk, benchVars, cfgVars, source, path, matched, observations,
                   dataset_on_off, datasets, parameters, fitN,
                   bkg_spectrum, e_thr_bias, esafe, mask_fit, written_summary,
                   written_table, outputs, runs>>

\* Lines 140-143 (1d) and 240-243 (3d): the table, cut to keys, is written,
\* and the function returns.
WriteTable(name) ==
    /\ written_table' = TableFormatted(flux_points)
    /\ disk' = (ResultPath(sources[source], name) :> "flux points") @@ disk
    /\ outputs' = Append(outputs, ResultPath(sources[source], name))

Write1d ==
    /\ script = "validation" /\ vpc = "1d_write"
    /\ WriteTable("flux-points-1d.ecsv")
    /\ Return
    /\ stage' = "write"
    /\ vpc' = "main_3d"
    /\ UNCHANGED <<script, benchVars, cfgVars, source, path, runs>>

\* main, lines 49-50, and run_analysis_3d, lines 152-160.
Call3d ==
    /\ script = "validation" /\ vpc = "main_3d" /\ analyse3d
    /\ FreshLocals
    /\ path' = "3d"
    /\ stage' = "none"
    /\ runs' = Append(runs, <<sources[source], "3d">>)
    /\ vpc' = "3d_select"
    /\ UNCHANGED <<script, disk, benchVars, cfgVars, source, outputs>>

Skip3d ==
    /\ script = "validation" /\ vpc = "main_3d" /\ ~analyse3d
    /\ vpc' = "main_loop"
    /\ UNCHANGED <<script, disk, benchVars, cfgVars, source, path, stage, localVars,
                   outputs, runs>>

\* Lines 162-164: analysis.get_observations(); debug mode does not cut it.
Select3d ==
    /\ script = "validation" /\ vpc = "3d_select"
    /\ \E n \in 0..MaxObs : observations' = [i \in 1..n |-> i]
    /\ stage' = "select"
    /\ vpc' = "3d_reduce"
    /\ UNCHANGED <<script, disk, benchVars, cfgVars, source, path, matched, dataset_on_off,
                   datasets, parameters, fitN, fpeN, flux_points, ulOverridden,
                   bkg_spectrum, e_thr_bias, esafe, mask_fit, written_summary,
                   written_table, outputs, runs>>

\* Lines 166-169: analysis.get_datasets() stacks the observations into one
\* dataset (obs 0); dataset = analysis.datasets[0]. The observations are read
\* no more and are dropped from the state.
Reduce3d ==
    /\ script = "validation" /\ vpc = "3d_reduce"
    /\ datasets' = <<[obs |-> 0, masked |-> FALSE]>>
    /\ observations' = <<>>
    /\ stage' = "reduce"
    /\ vpc' = "3d_mask"
    /\ UNCHANGED <<script, disk, benchVars, cfgVars, source, path, matched,
                   dataset_on_off, parameters, fitN, fpeN, flux_points, ulOverridden,
                   bkg_spectrum, e_thr_bias, esafe, mask_fit, written_summary,
                   written_table, outputs, runs>>

\* Lines 171-184: the safe energy threshold and the fit mask.
Mask3d ==
    /\ script = "validation" /\ vpc = "3d_mask"
    /\ \E bias \in BiasEnergies, data \in [1..NEnergyBins -> 0..MaxBkg] :
        /\ e_thr_bias' = bias
        /\ bkg_spectrum' = data
        /\ esafe' = SafeThreshold(bias, data)
    /\ mask_fit' = EnergyMask(esafe')
    /\ datasets' = <<[datasets[1] EXCEPT !.masked = TRUE]>>
    /\ stage' = "mask"
    /\ vpc' = "3d_fit"
    /\ UNCHANGED <<script, disk, benchVars, cfgVars, source, path, matched, observations,
                   dataset_on_off, parameters, fitN, fpeN, flux_points, ulOverridden,
                   written_summary, written_table, outputs, runs>>

\* Lines 186-213: the sky model of the target, the background norm unfrozen,
\* analysis.run_fit(). e_thr_bias, bkg_spectrum and esafe are read no more and
\* are dropped from the state; the dataset keeps mask_fit.
Fit3d ==
    /\ script = "validation" /\ vpc = "3d_fit"
    /\ \E spatial_model \in SpatialModels :
        \E p \in FitOutcomes(DatasetParameters(spatial_model)) : parameters' = p
    /\ fitN' = Len(datasets)
    /\ e_thr_bias' = 0
    /\ bkg_spectrum' = <<>>
    /\ esafe' = 0
    /\ stage' = "fit"
    /\ vpc' = "3d_summary"
    /\ UNCHANGED <<script, disk, benchVars, cfgVars, source, path, matched, observations,
                   dataset_on_off, datasets, fpeN, flux_points, ulOverridden,
                   mask_fit, written_summary, written_table, outputs, runs>>

Summary3d ==
    /\ script = "validation" /\ vpc = "3d_summary"
    /\ WriteSummary(ModelParameters(parameters), "results-summary-fit-3d.yaml")
    /\ stage' = "summarize"
    /\ vpc' = "3d_flux_points"
    /\ UNCHANGED <<script, benchVars, cfgVars, source, path, matched, observations,
                   dataset_on_off, datasets, parameters, fitN, fpeN, flux_points,
                   ulOverridden, bkg_spectrum, e_thr_bias, esafe, mask_fit,
                   written_table, runs>>

\* Lines 217-229: the parameters frozen, the estimator run, is_ul set.
FluxPoints3d ==
    /\ script = "validation" /\ vpc = "3d_flux_points"
    /\ parameters' = FreezeAllButNorm(parameters)
    /\ EstimateFluxPoints
    /\ stage' = "flux-points"
    /\ vpc' = "3d_write"
    /\ UNCHANGED <<script, disk, benchVars, cfgVars, source, path, matched, observations,
                   dataset_on_off, datasets, fitN,
                   bkg_spectrum, e_thr_bias, esafe, mask_fit, written_summary,
                   written_table, outputs, runs>>

Write3d ==
    /\ script = "validation" /\ vpc = "3d_write"
    /\ WriteTable("flux-points-3d.ecsv")
    /\ Return
    /\ stage' = "write"
    /\ vpc' = "main_loop"
    /\ UNCHANGED <<script, benchVars, cfgVars, source, path, runs>>

\* A call into the library, or the writing of a file, raises: nothing
\* catches, the script ends.
AnalysisRaises ==
    /\ script = "validation" /\ vpc \in AnalysisPcs
    /\ vpc' = "aborted"
    /\ UNCHANGED <<script, disk, benchVars, cfgVars, source, path, stage, localVars,
                   outputs, runs>>

----------------------------------------------------------------------------
(* write_fit_summary called on its own, on any list of parameters *)

HarnessNames == {"index", "amplitude"}

\* Values formatted to different strings (7 and 1234), and two formatted to
\* the same one (1234 and 1226, both 1.23e+03).
HarnessValues == {7, 1234, 1226}

HarnessParameters ==
    UNION {[1..n -> [name : HarnessNames, model : {"sky"}, value : HarnessValues,
                     frozen : {FALSE}]] : n \in 0..MaxPars}

CallWriteFitSummary ==
    /\ script = "write_fit_summary" /\ vpc = "call"
    /\ written_summary' = write_fit_summary(parameters)
    /\ disk' = ("outfile" :> "fit summary") @@ disk
    /\ vpc' = "done"
    /\ UNCHANGED <<script, benchVars, cfgVars, source, path, stage, matched, observations,
                   dataset_on_off, datasets, parameters, fitN, fpeN, flux_points,
                   ulOverridden, bkg_spectrum, e_thr_bias, esafe, mask_fit,
                   written_table, outputs, runs>>

----------------------------------------------------------------------------
(* Specifications *)

BenchIdle ==
    /\ N_OBS = 0
    /\ bpc = "off"
    /\ info = <<>>
    /\ t = 0
    /\ clock = 0
    /\ stacked = 0
    /\ heap = <<>>
    /\ trace = <<>>
    /\ failed = ""
    /\ clockBack = FALSE
    /\ written_obj = 0

LocalsIdle ==
    /\ matched = -1
    /\ observations = <<>>
    /\ dataset_on_off = <<>>
    /\ datasets = <<>>
    /\ parameters = <<>>
    /\ fitN = 0
    /\ fpeN = 0
    /\ flux_points = <<>>
    /\ ulOverridden = FALSE
    /\ bkg_spectrum = <<>>
    /\ e_thr_bias = 0
    /\ esafe = 0
    /\ mask_fit = <<>>
    /\ written_summary = <<>>
    /\ written_table = <<>>

ValIdle ==
    /\ DEBUG = TRUE
    /\ analyse1d = TRUE
    /\ analyse3d = TRUE
    /\ vpc = "off"
    /\ source = 0
    /\ path = "none"
    /\ stage = "none"
    /\ LocalsIdle
    /\ outputs = <<>>
    /\ runs = <<>>

\* run_benchmark is about to be called; N_OBS was read from the environment.
InitBench ==
    /\ script = "benchmark"
    /\ disk = <<>>
    /\ N_OBS \in 0..MaxNObs
    /\ bpc = "start"
    /\ info = <<>>
    /\ t = 0
    /\ clock = 0
    /\ stacked = 0
    /\ heap = <<>>
    /\ trace = <<>>
    /\ failed = ""
    /\ clockBack = FALSE
    /\ written_obj = 0
    /\ ValIdle

\* main is about to be called. The source sets DEBUG = True and calls main()
\* with both analyses on; the other settings are the ones its branches serve.
InitVal ==
    /\ script = "validation"
    /\ disk = <<>>
    /\ BenchIdle
    /\ DEBUG \in BOOLEAN
    /\ analyse1d \in BOOLEAN
    /\ analyse3d \in BOOLEAN
    /\ vpc = "main_loop"
    /\ source = 0
    /\ path = "none"
    /\ stage = "none"
    /\ LocalsIdle
    /\ outputs = <<>>
    /\ runs = <<>>

InitFitSummary ==
    /\ script = "write_fit_summary"
    /\ disk = <<>>
    /\ BenchIdle
    /\ DEBUG = TRUE
    /\ analyse1d = TRUE
    /\ analyse3d = TRUE
    /\ vpc = "call"
    /\ source = 0
    /\ path = "none"
    /\ stage = "none"
    /\ matched = -1
    /\ observations = <<>>
    /\ dataset_on_off = <<>>
    /\ datasets = <<>>
    /\ parameters \in HarnessParameters
    /\ fitN = 0
    /\ fpeN = 0
    /\ flux_points = <<>>
    /\ ulOverridden = FALSE
    /\ bkg_spectrum = <<>>
    /\ e_thr_bias = 0
    /\ esafe = 0
    /\ mask_fit = <<>>
    /\ written_summary = <<>>
    /\ written_table = <<>>
    /\ outputs = <<>>
    /\ runs = <<>>

NextBench ==
    \/ BenchStart
    \/ DataPrep
    \/ Write
    \/ Read
    \/ DataFit
    \/ FluxPoint
    \/ Dump
    \/ StageRaises
    \/ DumpRaises

NextVal ==
    \/ NextSource
    \/ TargetMissing
    \/ Finish
    \/ Call1d
    \/ Skip1d
    \/ Select1d
    \/ Reduce1d
    \/ Mask1d
    \/ Fit1d
    \/ Summary1d
    \/ FluxPoints1d
    \/ Write1d
    \/ Call3d
    \/ Skip3d
    \/ Select3d
    \/ Reduce3d
    \/ Mask3d
    \/ Fit3d
    \/ Summary3d
    \/ FluxPoints3d
    \/ Write3d
    \/ AnalysisRaises

Init == InitBench \/ InitVal

Next == NextBench \/ NextVal

\* Either script, run once.
Spec == Init /\ [][Next]_vars

SpecBench == InitBench /\ [][NextBench]_vars

SpecVal == InitVal /\ [][NextVal]_vars

SpecFitSummary == InitFitSummary /\ [][CallWriteFitSummary]_vars

----------------------------------------------------------------------------
(* Properties of the benchmark driver *)

BenchReport == disk["bench.yaml"]

BenchCompleted == script = "benchmark" /\ bpc = "done" /\ N_OBS >= 1

IsPrefix(s, q) == Len(s) <= Len(q) /\ \A i \in 1..Len(s) : s[i] = q[i]

\* C1 (as stated): for every N_OBS >= 1, when run_benchmark() completes, the
\* report written to bench.yaml holds exactly the five stage keys and no
\* other key, and each value is a non-negative number.
C1_ReportHasOnlyStageKeys ==
    BenchCompleted =>
        /\ DOMAIN BenchReport = StageKeys
        /\ \A k \in DOMAIN BenchReport : BenchReport[k] \in Nat

\* C1 (amended): for every N_OBS >= 1, when run_benchmark() completes, the
\* report written to bench.yaml holds exactly six keys, n_obs (whose value is
\* N_OBS) and the five stage keys; each stage value is an integer difference
\* of two wall-clock readings, and is non-negative unless the wall clock was
\* set back during the run.
C1_ReportKeysAndValues ==
    BenchCompleted =>
        /\ DOMAIN BenchReport = StageKeys \cup {"n_obs"}
        /\ BenchReport["n_obs"] = N_OBS
        /\ \A k \in StageKeys : BenchReport[k] \in Int
        /\ ~clockBack => \A k \in StageKeys : BenchReport[k] \in Nat

\* C1 witness: a completed run with N_OBS = 2 whose fit took measurable time.
C1_Witness ==
    /\ BenchCompleted /\ N_OBS = 2 /\ ~clockBack
    /\ BenchReport["data_fitting"] = 1

\* C2: the five stages run strictly in the order data preparation, write,
\* read, fit, flux points, each at most once and never retried; when a stage
\* fails no later stage runs and bench.yaml is not written; bench.yaml is
\* written only after all five stages have completed.
C2_StagesInOrderAbortOnFailure ==
    script = "benchmark" =>
        /\ IsPrefix(trace, StageOrder)
        /\ failed # "" =>
            /\ bpc = "aborted"
            /\ trace[Len(trace)] = failed
            /\ "bench.yaml" \notin DOMAIN disk
        /\ bpc = "aborted" => "bench.yaml" \notin DOMAIN disk
        /\ "bench.yaml" \in DOMAIN disk =>
            /\ trace = StageOrder
            /\ failed = ""
            /\ StageKeys \subseteq DOMAIN BenchReport

\* C2 witness: the third stage (read) raised after two stages completed.
C2_Witness ==
    /\ script = "benchmark" /\ bpc = "aborted" /\ failed = "reading"
    /\ trace = SubSeq(StageOrder, 1, 3)

\* The dataset that run_benchmark fits and estimates flux points of is the
\* object read back (the second one created), not the one data_prep built and
\* write wrote, which no stage touches after the write. Whether the object
\* read back holds the counts and parameters written is not decided here:
\* Datasets.write and Datasets.read are the library's.
BenchFitsTheDatasetReadBack ==
    (script = "benchmark" /\ bpc \in {"data_fitting", "flux_point", "dump", "done"}) =>
        /\ stacked = 2 /\ written_obj = 1 /\ Len(heap) = 2
        /\ heap[1].pars = sky_model
        /\ disk[filename \o "_models.yaml"] = heap[1].pars

----------------------------------------------------------------------------
(* Properties of the validation driver *)

\* C3: in both validation paths every row of the written flux-points table
\* has is_ul true exactly when the ts the estimator measured for that row is
\* below 4, whatever upper-limit flag the estimator returned.
C3_UpperLimitIffTsBelow4 ==
    (script = "validation" /\ stage = "write") =>
        /\ Len(written_table) = Len(flux_points)
        /\ Len(written_table) = NBIN
        /\ \A i \in 1..Len(written_table) :
            written_table[i].is_ul <=> (flux_points[i].ts < 4)

\* C3 witness: a written 3-d table with a row that is an upper limit and a
\* row that is not, one of them against the estimator's own flag.
C3_Witness ==
    /\ script = "validation" /\ stage = "write" /\ path = "3d" /\ ulOverridden
    /\ Len(written_table) = 2
    /\ written_table[1].is_ul /\ flux_points[1].ts = 3
    /\ ~written_table[2].is_ul /\ flux_points[2].ts = 4

\* Bin i is the lowest-index bin in which the spectrum attains its maximum.
IsPeakBin(data, i) ==
    /\ \A j \in 1..Len(data) : data[j] <= data[i]
    /\ \A j \in 1..(i - 1) : data[j] < data[i]

\* C4: in run_analysis_3d, for every background spectrum and every bias
\* energy, the threshold applied as the lower bound of the fit mask is the
\* greater of the bias energy and the centre energy of the lowest-index bin in
\* which the background spectrum attains its maximum.
C4_SafeThresholdIsMaxOfBiasAndPeak ==
    (script = "validation" /\ path = "3d" /\ stage = "mask") =>
        \E i \in 1..Len(bkg_spectrum) :
            /\ IsPeakBin(bkg_spectrum, i)
            /\ esafe >= e_thr_bias
            /\ esafe >= EnergyCenter(i)
            /\ esafe \in {e_thr_bias, EnergyCenter(i)}
            /\ \A b \in 1..NEnergyBins : mask_fit[b] <=> (EnergyEdge(b) >= esafe)

\* C4 witness: the maximum is attained in bins 1 and 2 and the bias energy
\* lies between their centres; the threshold is the bias energy.
C4_Witness ==
    /\ script = "validation" /\ path = "3d" /\ stage = "mask"
    /\ bkg_spectrum = <<1, 1, 0>> /\ e_thr_bias = 4 /\ esafe = 4
    /\ mask_fit = <<FALSE, TRUE, TRUE>>

\* What "exactly one observation is processed" means at each stage of the
\* 1-d path.
OneObservationProcessed ==
    /\ Len(observations) = 1
    /\ Len(datasets) + Len(dataset_on_off) <= 1
    /\ stage = "reduce" => dataset_on_off = <<[obs |-> 1, masked |-> FALSE]>>
    /\ stage \in {"mask", "fit", "summarize", "flux-points"} =>
        datasets = <<[obs |-> 1, masked |-> TRUE]>>
    /\ stage \in {"fit", "summarize", "flux-points"} => fitN = 1
    /\ stage = "flux-points" => fpeN = 1

\* C5 (as stated): with debug mode on, the 1-d path processes exactly one
\* observation, for every number of catalog observations that match.
C5_DebugProcessesOneObservation ==
    (script = "validation" /\ DEBUG /\ path = "1d" /\ matched >= 0) =>
        OneObservationProcessed

\* C5 (amended): with debug mode on, the 1-d path processes exactly one
\* observation for every number >= 1 of catalog observations that match;
\* when none matches, observations[0] raises and no dataset is reduced.
C5_DebugProcessesOneOfSeveral ==
    (script = "validation" /\ DEBUG /\ path = "1d") =>
        /\ matched >= 1 => OneObservationProcessed
        /\ matched = 0 =>
            /\ vpc = "aborted" /\ stage = "select"
            /\ observations = <<>> /\ datasets = <<>> /\ dataset_on_off = <<>>
            /\ fitN = 0 /\ fpeN = 0

\* C5 witness: two observations matched, one went through to the estimator.
C5_Witness ==
    /\ script = "validation" /\ DEBUG /\ path = "1d" /\ matched = 2
    /\ stage = "flux-points" /\ fitN = 1 /\ fpeN = 1

\* The analyses and the files of a complete run of main, in order.
ExpectedRuns ==
    [k \in 1..(2 * Len(sources)) |->
        <<sources[(k + 1) \div 2], IF k % 2 = 1 THEN "1d" ELSE "3d">>]

ExpectedOutputs ==
    [k \in 1..(4 * Len(sources)) |->
        sources[(k + 3) \div 4] \o "/results/" \o
            (CASE k % 4 = 1 -> "results-summary-fit-1d.yaml"
               [] k % 4 = 2 -> "flux-points-1d.ecsv"
               [] k % 4 = 3 -> "results-summary-fit-3d.yaml"
               [] k % 4 = 0 -> "flux-points-3d.ecsv")]

\* C7: with both analyses on, main runs for crab, msh1552, pks2155 in this
\* order the 1-d and then the 3-d analysis, each once; each analysis writes
\* one fit summary and then one flux-points table under the source's own
\* directory; every output of an analysis is written before the next analysis
\* starts; when main completes all twelve files are there.
C7_EachSourceBothVariantsInOrder ==
    (script = "validation" /\ analyse1d /\ analyse3d) =>
        /\ IsPrefix(runs, ExpectedRuns)
        /\ IsPrefix(outputs, ExpectedOutputs)
        /\ Len(outputs) <= 2 * Len(runs)
        /\ Len(runs) > 0 => Len(outputs) >= 2 * (Len(runs) - 1)
        /\ \A k \in 1..Len(outputs) : outputs[k] \in DOMAIN disk
        /\ vpc = "done" => runs = ExpectedRuns /\ outputs = ExpectedOutputs

\* C7 witness: main completed with both analyses on.
C7_Witness ==
    /\ script = "validation" /\ analyse1d /\ analyse3d /\ vpc = "done"
    /\ Len(runs) = 6 /\ Len(outputs) = 12 /\ Cardinality(DOMAIN disk) = 12

StageRank(s) ==
    CASE s = "none"        -> 0
      [] s = "select"      -> 1
      [] s = "reduce"      -> 2
      [] s = "mask"        -> 3
      [] s = "fit"         -> 4
      [] s = "summarize"   -> 5
      [] s = "flux-points" -> 6
      [] s = "write"       -> 7

\* A step that enters a stage of the analysis already running.
EntersStage == script = "validation" /\ runs' = runs /\ stage' # stage

\* C8 (as stated): within one analysis the stages are entered in the order
\* select, reduce, mask, fit, summarize, flux-points, write and none is
\* entered after a later one, for any number of selected observations, with
\* the debug flag on or off.
C8_NoBackTransition ==
    [][EntersStage => StageRank(stage') > StageRank(stage)]_vars

\* C8 (amended): within one analysis no stage is entered after a later one,
\* except that the 1-d path, with the debug flag off and more than one
\* observation selected, enters reduce again after mask once per further
\* observation; the 3-d path, and the 1-d path with the debug flag on, enter
\* each stage at most once, in the stated order.
C8_BackTransitionOnlyInReductionLoop ==
    [][EntersStage =>
        \/ StageRank(stage') > StageRank(stage)
        \/ /\ path = "1d" /\ ~DEBUG
           /\ stage = "mask" /\ stage' = "reduce"
           /\ Len(observations) > 1
           /\ Len(datasets) < Len(observations)]_vars

\* C8 witness: the 1-d path with the debug flag off has entered reduce for
\* the second observation, after mask for the first.
C8_Witness ==
    /\ script = "validation" /\ path = "1d" /\ ~DEBUG
    /\ stage = "reduce" /\ Len(datasets) = 1 /\ datasets[1].masked

----------------------------------------------------------------------------
(* Properties of both drivers *)

\* The fit summary of the running analysis is written and the analysis
\* function has not returned with this step.
SummaryWritten ==
    /\ script = "validation"
    /\ stage \in {"summarize", "flux-points"}
    /\ stage' \in {"summarize", "flux-points"}

\* What is on disk, and the objects it was written from, stay as they are.
FilesAndWrittenObjectsKept ==
    /\ \A f \in DOMAIN disk : f \in DOMAIN disk' /\ disk'[f] = disk[f]
    /\ written_obj # 0 => heap'[written_obj] = heap[written_obj]
    /\ (stage = "write" /\ runs' = runs) =>
        written_table' = written_table /\ flux_points' = flux_points
    /\ SummaryWritten => written_summary' = written_summary

\* C9 (as stated): once a dataset, a parameter set, a fit summary or a
\* flux-points table has been written, no later step changes it, parameter
\* values and frozen flags included.
C9_NothingChangesAfterWrite ==
    [][/\ FilesAndWrittenObjectsKept
       /\ SummaryWritten => parameters' = parameters]_vars

\* C9 (amended): once written, a dataset, a fit summary and a flux-points
\* table are changed by no later statement of the drivers, and neither are the
\* names and values of a written parameter set; but run_analysis_3d, once the
\* fit summary is written, sets frozen on every parameter of the dataset
\* other than the background norm.
C9_OnlyFrozenFlagsChangeAfterWrite ==
    [][/\ FilesAndWrittenObjectsKept
       /\ SummaryWritten =>
            /\ Len(parameters') = Len(parameters)
            /\ \A i \in 1..Len(parameters) :
                /\ parameters'[i].name = parameters[i].name
                /\ parameters'[i].model = parameters[i].model
                /\ parameters'[i].value = parameters[i].value
                /\ parameters'[i].frozen # parameters[i].frozen =>
                    /\ path = "3d"
                    /\ stage = "summarize" /\ stage' = "flux-points"
                    /\ parameters'[i].frozen
                    /\ ~(parameters[i].model = "background"
                         /\ parameters[i].name = "norm")]_vars

\* C9 witness: the 3-d fit summary is written and the fitted index, free
\* during the fit, is now frozen, the background norm is not.
C9_Witness ==
    /\ script = "validation" /\ path = "3d" /\ stage = "flux-points"
    /\ written_summary # <<>>
    /\ \E i \in 1..Len(parameters) :
        parameters[i].name = "index" /\ parameters[i].frozen /\ parameters[i].value = 1
    /\ \E i \in 1..Len(parameters) :
        parameters[i].name = "norm" /\ ~parameters[i].frozen

----------------------------------------------------------------------------
(* Properties of write_fit_summary *)

ParameterNames(pars) == {pars[i].name : i \in 1..Len(pars)}

\* The position of the last parameter of the list that bears the name.
LastNamed(pars, n) ==
    CHOOSE i \in 1..Len(pars) :
        pars[i].name = n /\ \A j \in (i + 1)..Len(pars) : pars[j].name # n

\* C10: write_fit_summary writes one entry per distinct parameter name of the
\* list; of parameters that share a name the string of the last one is kept,
\* so there are as many entries as distinct names.
C10_OneEntryPerNameLastWins ==
    (script = "write_fit_summary" /\ vpc = "done") =>
        /\ DOMAIN written_summary = ParameterNames(parameters)
        /\ Cardinality(DOMAIN written_summary) = Cardinality(ParameterNames(parameters))
        /\ \A n \in DOMAIN written_summary :
            written_summary[n] = Format2e(parameters[LastNamed(parameters, n)].value)

\* C10 witness: three parameters, the first and the last of one name and of
\* different strings; two entries, the last one's string kept.
C10_Witness ==
    /\ script = "write_fit_summary" /\ vpc = "done"
    /\ Len(parameters) = 3
    /\ parameters[1].name = "index" /\ parameters[2].name = "amplitude"
    /\ parameters[3].name = "index"
    /\ parameters[1].value = 7 /\ parameters[3].value = 1234
    /\ Cardinality(DOMAIN written_summary) = 2
    /\ written_summary["index"] = <<123, 3>>

====
